---- MODULE Spec2Model ----
(***************************************************************************)
(* The Mamm pool contract (contracts/Mamm.algo.ts, the version with the    *)
(* admin functions, lines 460-888) as a state machine: one action per ABI  *)
(* method, the global state keys as one record, and the part of the ledger *)
(* the methods act on (what the application account holds).                *)
(*                                                                         *)
(* The AVM's uint64 arithmetic panics on overflow, underflow and division  *)
(* by zero; a panic, a failed assert or a failed inner transaction rejects *)
(* the whole call and leaves the global state and the ledger untouched.    *)
(* TLC's integers are 32 bits wide, so the word bound MAX_UINT64 and the   *)
(* LP allotment LP_TOKEN_SUPPLY are scaled down (both are bounds of the    *)
(* model); every other number is the program's.                            *)
(***************************************************************************)
EXTENDS Integers, Sequences, FiniteSets, TLC

\* ---------------------------------------------------------------- bounds
\* Largest value of a machine word (2^64 - 1 in the AVM), scaled, and in
\* the source's proportion to LP_TOKEN_SUPPLY: a few units times the
\* allotment fit a word, more do not.
MAX_UINT64 == 131071
\* LP_TOKEN_SUPPLY (99_999_999_999_999 in the source), scaled.
LP_TOKEN_SUPPLY == 50000
\* The model stops depositing or swapping into a reserve beyond this.
MaxReserve == 8
\* The model stops calling initApplication after this many successes.
MaxInits == 2
\* The model follows this many accepted calls after createApplication.
MaxCalls == 4

\* ------------------------------------------------------ program constants
VERSION == 1000
TOKEN_MBR == 100000
BPS_DENOMINATOR == 10000
LP_TOKEN_DECIMALS == 6
INNER_FEES == 3000

\* ------------------------------------------------------------ input sets
Pool == "pool"
NoAddress == "zero"
Addresses == {"deployer", "user"}
Creators == {"deployer"}
PrimaryIds == {0, 1}
SecondaryIds == {2}
ReserveAssetIds == {1, 2}
Amounts == {0, 2, 4}
BigAmount == 1000
InitSwapFees == {0, 5000}
InitProtocolFees == {0, 2500}
NewSwapFees == {0, 2500, 20000}
NewProtocolFees == {0, 5000, 20000}
MbrValues == {0, TOKEN_MBR * 4}
EndingValues == {0, 1}
SwapTypes == {0, 1, 2}

\* ----------------------------------------------------------- arithmetic
\* uint64 operators of the AVM: defined only when the result fits.
AddOk(a, b) == a + b <= MAX_UINT64
SubOk(a, b) == b <= a
MulOk(a, b) == a * b <= MAX_UINT64
DivOk(a, b) == b # 0

\* wideRatio([a, b], [c]): the product is taken at double width, the
\* quotient must fit a word and the divisor must not be zero.
wideRatioOk(a, b, c) == c # 0 /\ (a * b) \div c <= MAX_UINT64
wideRatio(a, b, c) == (a * b) \div c

\* The sqrt opcode: the largest r with r * r <= n.
RECURSIVE sqrtFrom(_, _)
sqrtFrom(n, r) == IF (r + 1) * (r + 1) > n THEN r ELSE sqrtFrom(n, r + 1)
\* The square root rounded up.
sqrtMutant(n) ==
  IF sqrtFrom(n, 0) * sqrtFrom(n, 0) = n THEN sqrtFrom(n, 0)
  ELSE sqrtFrom(n, 0) + 1

sqrt(n) == sqrtFrom(n, 0)

min(a, b) == IF a < b THEN a ELSE b

\* ------------------------------------------------------------------ state
VARIABLES
  app,      \* "none" before createApplication, then "live"
  gs,       \* the application's global state, one field per GlobalStateKey
  optedIn,  \* the reserve assets the application account is opted in to
  held,     \* what the application account holds of each reserve asset
  lpHeld,   \* what it holds of the LP asset lp_token_id names
  inits,    \* how many initApplication calls have succeeded
  calls,    \* how many calls were accepted after createApplication
  last      \* the last call: method, sender, outcome, inner transactions

vars == <<app, gs, optedIn, held, lpHeld, inits, calls, last>>

\* A key that was never written reads as 0 (app_global_get).
EmptyGlobalState ==
  [ primary_token_reserve |-> 0, secondary_token_reserve |-> 0,
    primary_token_id |-> 0, secondary_token_id |-> 0,
    total_lp_supply |-> 0, lp_tokens_issued |-> 0, k_value |-> 0,
    lp_token_id |-> 0, lp_token_decimals |-> 0,
    swap_fee_bps |-> 0, protocol_fee_bps |-> 0,
    admin |-> NoAddress, treasury_address |-> NoAddress,
    minimum_balance |-> 0, contract_ending |-> 0, contract_version |-> 0 ]

\* An inner transaction: sendAssetTransfer ("axfer") or sendPayment ("pay").
AssetTransfer(asset, to, amt) ==
  [kind |-> "axfer", asset |-> asset, to |-> to, amt |-> amt]
Payment(to, amt) == [kind |-> "pay", asset |-> 0, to |-> to, amt |-> amt]

\* An outer transaction of the caller's group, handed to a method.
Txn(sender, receiver, asset, amt) ==
  [sender |-> sender, receiver |-> receiver, asset |-> asset, amt |-> amt]

\* The outcome of running a method: whether it was accepted, the global
\* state it commits, the inner transactions it sends, in order, and, for a
\* rejected run, why: the message of the assert that failed, "verify" for a
\* verify...Txn, "panic" for an arithmetic error of the AVM.
Reject(why) ==
  [ok |-> FALSE, gs |-> EmptyGlobalState, xfers |-> <<>>, why |-> why]
Rejected == Reject("panic")
Accepted(g, xfers) == [ok |-> TRUE, gs |-> g, xfers |-> xfers, why |-> ""]

\* The record of the latest call: the method, its caller, its numeric
\* arguments a and b (and c and d, for a method of four), its address
\* argument, and how it ended.
CallWith(op, sender, ok, a, b, addr, why, xfers) ==
  [op |-> op, sender |-> sender, ok |-> ok, a |-> a, b |-> b, c |-> 0,
   d |-> 0, addr |-> addr, why |-> why, xfers |-> xfers]
Call(op, sender, ok, a, b, xfers) ==
  CallWith(op, sender, ok, a, b, NoAddress, "", xfers)
Failed(op, sender, a, b, addr, why) ==
  CallWith(op, sender, FALSE, a, b, addr, why, <<>>)

Init ==
  /\ app = "none"
  /\ gs = EmptyGlobalState
  /\ optedIn = {}
  /\ held = [i \in ReserveAssetIds |-> 0]
  /\ lpHeld = 0
  /\ inits = 0
  /\ calls = 0
  /\ last = Call("none", NoAddress, TRUE, 0, 0, <<>>)

\* ----------------------------------------------------------------- ledger
\* The inner transactions xs, in order, against what the application
\* account holds (h = [held, lp]); lpId is the LP asset.  A transfer of an
\* asset the account does not hold enough of, or is not opted in to, fails,
\* and with it the whole call.  The account's Algo balance is not modelled.
RECURSIVE ApplyTransfers(_, _, _, _)
ApplyTransfers(h, lpId, opted, xs) ==
  IF xs = <<>> THEN [ok |-> TRUE, held |-> h.held, lp |-> h.lp]
  ELSE LET x == Head(xs) IN
    IF x.kind = "pay" THEN ApplyTransfers(h, lpId, opted, Tail(xs))
    ELSE IF x.asset # 0 /\ x.asset = lpId THEN
      IF h.lp >= x.amt
      THEN ApplyTransfers([h EXCEPT !.lp = @ - x.amt], lpId, opted, Tail(xs))
      ELSE [ok |-> FALSE, held |-> h.held, lp |-> h.lp]
    ELSE IF x.asset \in opted /\ h.held[x.asset] >= x.amt
      THEN ApplyTransfers([h EXCEPT !.held[x.asset] = @ - x.amt],
                          lpId, opted, Tail(xs))
      ELSE [ok |-> FALSE, held |-> h.held, lp |-> h.lp]

\* The caller's transaction as the method expects it, or one that differs
\* from it in the amount or in the receiver.
TxnVariant(v, sender, asset, amt) ==
  CASE v = "exact" -> Txn(sender, Pool, asset, amt)
    [] v = "amount" -> Txn(sender, Pool, asset, amt + 1)
    [] v = "receiver" -> Txn(sender, sender, asset, amt)
Variants == {"exact", "amount", "receiver"}

\* verifyAssetTransferTxn / verifyPayTxn
verifyTxn(txn, sender, receiver, asset, amt) ==
  /\ txn.sender = sender
  /\ txn.receiver = receiver
  /\ txn.asset = asset
  /\ txn.amt = amt

\* A rejected call changes nothing but `last`, so the calls that can follow
\* it are those that can follow the state it left: the model follows a
\* rejected call no further.
Ready == app = "live" /\ last.ok /\ calls < MaxCalls

\* ------------------------------------------------------- createApplication
\* createApplication storing its caller as the treasury too.
createApplicationMutant ==
  /\ app = "none"
  /\ \E sender \in Creators :
       /\ gs' = [gs EXCEPT !.admin = sender, !.treasury_address = sender]
       /\ last' = Call("createApplication", sender, TRUE, 0, 0, <<>>)
  /\ app' = "live"
  /\ UNCHANGED <<optedIn, held, lpHeld, inits, calls>>

createApplication ==
  /\ app = "none"
  /\ \E sender \in Creators :
       /\ gs' = [gs EXCEPT !.admin = sender]
       /\ last' = Call("createApplication", sender, TRUE, 0, 0, <<>>)
  /\ app' = "live"
  /\ UNCHANGED <<optedIn, held, lpHeld, inits, calls>>

\* --------------------------------------------------------- initApplication
\* The asset id sendAssetCreation returns: fresh at each creation.
LpAssetId(n) == 100 + n

\* What the pool must be paid: TOKEN_MBR * 4 + 3_000.
InitFunding == TOKEN_MBR * 4 + INNER_FEES

\* initApplication without its last line (613): total_lp_supply stays at the 0
\* of line 571.
initApplicationRunMutant(g, sender, mbrTxn, primaryAssetId, secondaryAssetId, swapFeeBps, protocolFeeBps, treasuryAddress, lpAssetId) ==
  IF g.admin # sender THEN Reject("Only admin")
  ELSE IF ~(mbrTxn.receiver = Pool /\ mbrTxn.amt = InitFunding)
    THEN Reject("verify")
  \* opting in to an asset that does not exist fails
  ELSE IF ~(primaryAssetId \in ReserveAssetIds
            /\ secondaryAssetId \in ReserveAssetIds)
    THEN Reject("inner transaction")
  ELSE Accepted(
    [g EXCEPT !.primary_token_reserve = 0,
              !.secondary_token_reserve = 0,
              !.k_value = 0,
              !.lp_token_decimals = LP_TOKEN_DECIMALS,
              !.contract_version = VERSION,
              !.minimum_balance = TOKEN_MBR * 4,
              !.swap_fee_bps = swapFeeBps,
              !.protocol_fee_bps = protocolFeeBps,
              !.treasury_address = treasuryAddress,
              !.primary_token_id = primaryAssetId,
              !.secondary_token_id = secondaryAssetId,
              !.lp_token_id = lpAssetId,
              !.total_lp_supply = 0],
    <<AssetTransfer(primaryAssetId, Pool, 0),
      AssetTransfer(secondaryAssetId, Pool, 0)>>)

\* initApplication without its verifyPayTxn (line 584).
initApplicationRunNoPayCheck(g, sender, mbrTxn, primaryAssetId, secondaryAssetId, swapFeeBps, protocolFeeBps, treasuryAddress, lpAssetId) ==
  IF g.admin # sender THEN Reject("Only admin")
  \* opting in to an asset that does not exist fails
  ELSE IF ~(primaryAssetId \in ReserveAssetIds
            /\ secondaryAssetId \in ReserveAssetIds)
    THEN Reject("inner transaction")
  ELSE Accepted(
    [g EXCEPT !.primary_token_reserve = 0,
              !.secondary_token_reserve = 0,
              !.k_value = 0,
              !.lp_token_decimals = LP_TOKEN_DECIMALS,
              !.contract_version = VERSION,
              !.minimum_balance = TOKEN_MBR * 4,
              !.swap_fee_bps = swapFeeBps,
              !.protocol_fee_bps = protocolFeeBps,
              !.treasury_address = treasuryAddress,
              !.primary_token_id = primaryAssetId,
              !.secondary_token_id = secondaryAssetId,
              !.lp_token_id = lpAssetId,
              !.total_lp_supply = LP_TOKEN_SUPPLY],
    <<AssetTransfer(primaryAssetId, Pool, 0),
      AssetTransfer(secondaryAssetId, Pool, 0)>>)

initApplicationRun(g, sender, mbrTxn, primaryAssetId, secondaryAssetId, swapFeeBps, protocolFeeBps, treasuryAddress, lpAssetId) ==
  IF g.admin # sender THEN Reject("Only admin")
  ELSE IF ~(mbrTxn.receiver = Pool /\ mbrTxn.amt = InitFunding)
    THEN Reject("verify")
  \* opting in to an asset that does not exist fails
  ELSE IF ~(primaryAssetId \in ReserveAssetIds
            /\ secondaryAssetId \in ReserveAssetIds)
    THEN Reject("inner transaction")
  ELSE Accepted(
    [g EXCEPT !.primary_token_reserve = 0,
              !.secondary_token_reserve = 0,
              !.k_value = 0,
              !.lp_token_decimals = LP_TOKEN_DECIMALS,
              !.contract_version = VERSION,
              !.minimum_balance = TOKEN_MBR * 4,
              !.swap_fee_bps = swapFeeBps,
              !.protocol_fee_bps = protocolFeeBps,
              !.treasury_address = treasuryAddress,
              !.primary_token_id = primaryAssetId,
              !.secondary_token_id = secondaryAssetId,
              !.lp_token_id = lpAssetId,
              !.total_lp_supply = LP_TOKEN_SUPPLY],
    <<AssetTransfer(primaryAssetId, Pool, 0),
      AssetTransfer(secondaryAssetId, Pool, 0)>>)

\* initApplication on a ledger that keeps what a rejected call wrote before
\* its verifyPayTxn (lines 569-582).
initApplicationMutant ==
  /\ Ready
  /\ inits < MaxInits
  /\ \E sender \in Addresses, v \in Variants,
        p \in PrimaryIds, s \in SecondaryIds,
        sf \in InitSwapFees, pf \in InitProtocolFees, t \in Addresses :
       \* a payment that is not the expected one is tried with one choice
       \* of fees and treasury
       /\ v = "exact" \/ (sf = 0 /\ pf = 0 /\ t = sender)
       /\ LET mbrTxn == TxnVariant(v, sender, 0, InitFunding)
              r == initApplicationRun(gs, sender, mbrTxn, p, s, sf, pf, t,
                                      LpAssetId(inits + 1))
          IN IF r.ok
             THEN /\ gs' = r.gs
                  /\ optedIn' = optedIn \cup {p, s}
                  /\ lpHeld' = LP_TOKEN_SUPPLY
                  /\ inits' = inits + 1
                  /\ last' = [CallWith("initApplication", sender, TRUE, p, s,
                                        t, "", r.xfers)
                               EXCEPT !.c = sf, !.d = pf]
                  /\ calls' = calls + 1
                  /\ UNCHANGED <<app, held>>
             ELSE /\ last' = Failed("initApplication", sender, p, s,
                                     NoAddress, r.why)
                  /\ gs' = IF r.why = "verify"
                           THEN [gs EXCEPT !.primary_token_reserve = 0,
                                           !.secondary_token_reserve = 0,
                                           !.total_lp_supply = 0,
                                           !.k_value = 0,
                                           !.lp_token_id = 0,
                                           !.swap_fee_bps = sf,
                                           !.protocol_fee_bps = pf,
                                           !.treasury_address = t]
                           ELSE gs
                  /\ UNCHANGED <<app, optedIn, held, lpHeld, inits, calls>>

initApplication ==
  /\ Ready
  /\ inits < MaxInits
  /\ \E sender \in Addresses, v \in Variants,
        p \in PrimaryIds, s \in SecondaryIds,
        sf \in InitSwapFees, pf \in InitProtocolFees, t \in Addresses :
       \* a payment that is not the expected one is tried with one choice
       \* of fees and treasury
       /\ v = "exact" \/ (sf = 0 /\ pf = 0 /\ t = sender)
       /\ LET mbrTxn == TxnVariant(v, sender, 0, InitFunding)
              r == initApplicationRun(gs, sender, mbrTxn, p, s, sf, pf, t,
                                      LpAssetId(inits + 1))
          IN IF r.ok
             THEN /\ gs' = r.gs
                  /\ optedIn' = optedIn \cup {p, s}
                  /\ lpHeld' = LP_TOKEN_SUPPLY
                  /\ inits' = inits + 1
                  /\ last' = [CallWith("initApplication", sender, TRUE, p, s,
                                        t, "", r.xfers)
                               EXCEPT !.c = sf, !.d = pf]
                  /\ calls' = calls + 1
                  /\ UNCHANGED <<app, held>>
             ELSE /\ last' = Failed("initApplication", sender, p, s,
                                     NoAddress, r.why)
                  /\ UNCHANGED <<app, gs, optedIn, held, lpHeld, inits, calls>>

\* The product of line 651 wrapping around instead of failing.
lpTokensMintedOkMutant(primaryAmount, secondaryAmount, primaryReserve, secondaryReserve, totalLPSupply, lpTokensIssued) ==
  IF lpTokensIssued = 0
  THEN MulOk(primaryAmount, secondaryAmount)
  ELSE /\ wideRatioOk(primaryAmount, totalLPSupply, primaryReserve)
       /\ DivOk(secondaryAmount * totalLPSupply, secondaryReserve)

\* ------------------------------------------------------------ addLiquidity
\* lpTokensMinted (lines 642-653) is defined when its products fit a word
\* and its divisors are not zero.
lpTokensMintedOk(primaryAmount, secondaryAmount, primaryReserve, secondaryReserve, totalLPSupply, lpTokensIssued) ==
  IF lpTokensIssued = 0
  THEN MulOk(primaryAmount, secondaryAmount)
  ELSE /\ wideRatioOk(primaryAmount, totalLPSupply, primaryReserve)
       /\ MulOk(secondaryAmount, totalLPSupply)
       /\ DivOk(secondaryAmount * totalLPSupply, secondaryReserve)

lpTokensMinted(primaryAmount, secondaryAmount, primaryReserve, secondaryReserve, totalLPSupply, lpTokensIssued) ==
  IF lpTokensIssued = 0
  THEN sqrt(primaryAmount * secondaryAmount)
  ELSE LET mintFromPrimary ==
             wideRatio(primaryAmount, totalLPSupply, primaryReserve)
           mintFromSecondary ==
             (secondaryAmount * totalLPSupply) \div secondaryReserve
       IN min(mintFromPrimary, mintFromSecondary)

\* Lines 655-660: the reserves, the allotment, k and the issued count.
addLiquidityCommit(g, primaryAmount, secondaryAmount, minted) ==
  [g EXCEPT !.primary_token_reserve = @ + primaryAmount,
            !.secondary_token_reserve = @ + secondaryAmount,
            !.total_lp_supply = @ - minted,
            !.k_value = (g.primary_token_reserve + primaryAmount)
                        * (g.secondary_token_reserve + secondaryAmount),
            !.lp_tokens_issued = @ + minted]

\* addLiquidity asserting that it mints something.
addLiquidityRunMintCheck(g, sender, primaryAmount, secondaryAmount, primaryAssetTransfer, secondaryAssetTransfer) ==
  LET primaryReserve == g.primary_token_reserve
      secondaryReserve == g.secondary_token_reserve
      totalLPSupply == g.total_lp_supply
      lpTokensIssued == g.lp_tokens_issued
      minted == lpTokensMinted(primaryAmount, secondaryAmount, primaryReserve,
                               secondaryReserve, totalLPSupply, lpTokensIssued)
  IN
  IF ~verifyTxn(primaryAssetTransfer, sender, Pool,
                g.primary_token_id, primaryAmount) THEN Reject("verify")
  ELSE IF ~verifyTxn(secondaryAssetTransfer, sender, Pool,
                     g.secondary_token_id, secondaryAmount)
    THEN Reject("verify")
  ELSE IF ~lpTokensMintedOk(primaryAmount, secondaryAmount, primaryReserve,
                            secondaryReserve, totalLPSupply, lpTokensIssued)
    THEN Rejected
  ELSE IF ~(/\ AddOk(primaryReserve, primaryAmount)
            /\ AddOk(secondaryReserve, secondaryAmount)
            /\ SubOk(totalLPSupply, minted)
            /\ MulOk(primaryReserve + primaryAmount,
                     secondaryReserve + secondaryAmount)
            /\ AddOk(lpTokensIssued, minted)) THEN Rejected
  ELSE IF ~(minted > 0) THEN Reject("Zero mint")
  ELSE Accepted(
    addLiquidityCommit(g, primaryAmount, secondaryAmount, minted),
    <<AssetTransfer(g.lp_token_id, sender, minted)>>)

addLiquidityRun(g, sender, primaryAmount, secondaryAmount, primaryAssetTransfer, secondaryAssetTransfer) ==
  LET primaryReserve == g.primary_token_reserve
      secondaryReserve == g.secondary_token_reserve
      totalLPSupply == g.total_lp_supply
      lpTokensIssued == g.lp_tokens_issued
      minted == lpTokensMinted(primaryAmount, secondaryAmount, primaryReserve,
                               secondaryReserve, totalLPSupply, lpTokensIssued)
  IN
  IF ~verifyTxn(primaryAssetTransfer, sender, Pool,
                g.primary_token_id, primaryAmount) THEN Reject("verify")
  ELSE IF ~verifyTxn(secondaryAssetTransfer, sender, Pool,
                     g.secondary_token_id, secondaryAmount)
    THEN Reject("verify")
  ELSE IF ~lpTokensMintedOk(primaryAmount, secondaryAmount, primaryReserve,
                            secondaryReserve, totalLPSupply, lpTokensIssued)
    THEN Rejected
  ELSE IF ~(/\ AddOk(primaryReserve, primaryAmount)
            /\ AddOk(secondaryReserve, secondaryAmount)
            /\ SubOk(totalLPSupply, minted)
            /\ MulOk(primaryReserve + primaryAmount,
                     secondaryReserve + secondaryAmount)
            /\ AddOk(lpTokensIssued, minted)) THEN Rejected
  ELSE Accepted(
    addLiquidityCommit(g, primaryAmount, secondaryAmount, minted),
    <<AssetTransfer(g.lp_token_id, sender, minted)>>)

\* The group's deposits reach the application account before the call
\* runs; an account receives only assets it is opted in to.
Deposit(h, opted, txn) ==
  IF txn.receiver = Pool /\ txn.asset \in opted
  THEN [ok |-> TRUE, held |-> [h EXCEPT ![txn.asset] = @ + txn.amt]]
  ELSE [ok |-> txn.receiver # Pool \/ txn.amt = 0, held |-> h]

WithinReserveBound(g) ==
  /\ g.primary_token_reserve <= MaxReserve
  /\ g.secondary_token_reserve <= MaxReserve

addLiquidity ==
  /\ Ready
  /\ \E sender \in Addresses, a \in Amounts \cup {BigAmount},
        b \in Amounts \cup {BigAmount}, v \in Variants :
       \* a transfer that is not the expected one is tried with equal
       \* amounts
       /\ v = "exact" \/ (a = b /\ a \in Amounts)
       /\ LET pTxn == TxnVariant(v, sender, gs.primary_token_id, a)
              sTxn == TxnVariant("exact", sender, gs.secondary_token_id, b)
              r == addLiquidityRun(gs, sender, a, b, pTxn, sTxn)
              d1 == Deposit(held, optedIn, pTxn)
              d2 == Deposit(d1.held, optedIn, sTxn)
              l == ApplyTransfers([held |-> d2.held, lp |-> lpHeld],
                                  gs.lp_token_id, optedIn, r.xfers)
          IN IF r.ok /\ d1.ok /\ d2.ok /\ l.ok
             THEN /\ WithinReserveBound(r.gs)
                  /\ gs' = r.gs
                  /\ held' = l.held
                  /\ lpHeld' = l.lp
                  /\ last' = Call("addLiquidity", sender, TRUE, a, b, r.xfers)
                  /\ calls' = calls + 1
                  /\ UNCHANGED <<app, optedIn, inits>>
             ELSE /\ last' = Failed("addLiquidity", sender, a, b, NoAddress,
                                     IF r.ok THEN "inner transaction"
                                     ELSE r.why)
                  /\ UNCHANGED <<app, gs, optedIn, held, lpHeld, inits, calls>>

\* --------------------------------------------------------- removeLiquidity
\* Transfer of a reserve asset: a payment when its id is 0.
SendReserve(assetId, receiver, amt) ==
  IF assetId # 0 THEN AssetTransfer(assetId, receiver, amt)
  ELSE Payment(receiver, amt)

\* Lines 690-698: total_lp_supply is lowered by the burn (693) and raised
\* by it again (697).
removeLiquidityCommit(g, lpTokensBurned, primaryWithdrawn, secondaryWithdrawn) ==
  [g EXCEPT !.primary_token_reserve = @ - primaryWithdrawn,
            !.secondary_token_reserve = @ - secondaryWithdrawn,
            !.k_value = (g.primary_token_reserve - primaryWithdrawn)
                        * (g.secondary_token_reserve - secondaryWithdrawn),
            !.total_lp_supply = (@ - lpTokensBurned) + lpTokensBurned,
            !.lp_tokens_issued = @ - lpTokensBurned]

\* removeLiquidity without its assert on the amount (line 676).
removeLiquidityRunMutant(g, sender, burnTxn, lpTokensBurned) ==
  LET primaryReserve == g.primary_token_reserve
      secondaryReserve == g.secondary_token_reserve
      totalLPSupply == g.total_lp_supply
      primaryWithdrawn == wideRatio(lpTokensBurned, primaryReserve,
                                    totalLPSupply)
      secondaryWithdrawn == wideRatio(lpTokensBurned, secondaryReserve,
                                      totalLPSupply)
  IN
  IF ~(lpTokensBurned <= totalLPSupply)
    THEN Reject("Not enough LP supply")
  ELSE IF ~verifyTxn(burnTxn, sender, Pool, g.lp_token_id, lpTokensBurned)
    THEN Reject("verify")
  ELSE IF ~(/\ wideRatioOk(lpTokensBurned, primaryReserve, totalLPSupply)
            /\ wideRatioOk(lpTokensBurned, secondaryReserve, totalLPSupply))
    THEN Rejected
  ELSE IF ~(/\ SubOk(primaryReserve, primaryWithdrawn)
            /\ SubOk(secondaryReserve, secondaryWithdrawn)
            /\ SubOk(totalLPSupply, lpTokensBurned)
            /\ MulOk(primaryReserve - primaryWithdrawn,
                     secondaryReserve - secondaryWithdrawn)
            /\ AddOk(totalLPSupply - lpTokensBurned, lpTokensBurned)
            /\ SubOk(g.lp_tokens_issued, lpTokensBurned)) THEN Rejected
  ELSE Accepted(
    removeLiquidityCommit(g, lpTokensBurned, primaryWithdrawn,
                          secondaryWithdrawn),
    <<SendReserve(g.primary_token_id, sender, primaryWithdrawn),
      SendReserve(g.secondary_token_id, sender, secondaryWithdrawn)>>)

removeLiquidityRun(g, sender, burnTxn, lpTokensBurned) ==
  LET primaryReserve == g.primary_token_reserve
      secondaryReserve == g.secondary_token_reserve
      totalLPSupply == g.total_lp_supply
      primaryWithdrawn == wideRatio(lpTokensBurned, primaryReserve,
                                    totalLPSupply)
      secondaryWithdrawn == wideRatio(lpTokensBurned, secondaryReserve,
                                      totalLPSupply)
  IN
  IF ~(lpTokensBurned > 0) THEN Reject("Invalid LP amount")
  ELSE IF ~(lpTokensBurned <= totalLPSupply)
    THEN Reject("Not enough LP supply")
  ELSE IF ~verifyTxn(burnTxn, sender, Pool, g.lp_token_id, lpTokensBurned)
    THEN Reject("verify")
  ELSE IF ~(/\ wideRatioOk(lpTokensBurned, primaryReserve, totalLPSupply)
            /\ wideRatioOk(lpTokensBurned, secondaryReserve, totalLPSupply))
    THEN Rejected
  ELSE IF ~(/\ SubOk(primaryReserve, primaryWithdrawn)
            /\ SubOk(secondaryReserve, secondaryWithdrawn)
            /\ SubOk(totalLPSupply, lpTokensBurned)
            /\ MulOk(primaryReserve - primaryWithdrawn,
                     secondaryReserve - secondaryWithdrawn)
            /\ AddOk(totalLPSupply - lpTokensBurned, lpTokensBurned)
            /\ SubOk(g.lp_tokens_issued, lpTokensBurned)) THEN Rejected
  ELSE Accepted(
    removeLiquidityCommit(g, lpTokensBurned, primaryWithdrawn,
                          secondaryWithdrawn),
    <<SendReserve(g.primary_token_id, sender, primaryWithdrawn),
      SendReserve(g.secondary_token_id, sender, secondaryWithdrawn)>>)

\* The LP amounts a caller tries to burn.
BurnAmounts(g) ==
  {0, 1, 2, g.lp_tokens_issued, g.lp_tokens_issued + 1, g.total_lp_supply + 1}

\* What the latest call minted, when it was an accepted deposit.
LastMinted ==
  IF last.op = "addLiquidity" /\ last.ok THEN {last.xfers[1].amt} ELSE {}

removeLiquidity ==
  /\ Ready
  /\ \E sender \in Addresses, n \in BurnAmounts(gs) \cup LastMinted,
        v \in Variants :
       \* a transfer that is not the expected one is tried with the
       \* amounts drawn from the state
       /\ v = "exact" \/ n \in {gs.lp_tokens_issued, gs.total_lp_supply + 1}
       /\ LET burnTxn == TxnVariant(v, sender, gs.lp_token_id, n)
              r == removeLiquidityRun(gs, sender, burnTxn, n)
              \* the callers hold the LP units the application account does not
              burnable == gs.lp_token_id # 0
                          /\ burnTxn.amt <= LP_TOKEN_SUPPLY - lpHeld
              l == ApplyTransfers([held |-> held, lp |-> lpHeld + burnTxn.amt],
                                  gs.lp_token_id, optedIn, r.xfers)
          IN IF r.ok /\ burnable /\ l.ok
             THEN /\ gs' = r.gs
                  /\ held' = l.held
                  /\ lpHeld' = l.lp
                  /\ last' = Call("removeLiquidity", sender, TRUE, n, 0, r.xfers)
                  /\ calls' = calls + 1
                  /\ UNCHANGED <<app, optedIn, inits>>
             ELSE /\ last' = Failed("removeLiquidity", sender, n, 0, NoAddress,
                                     IF r.ok THEN "inner transaction"
                                     ELSE r.why)
                  /\ UNCHANGED <<app, gs, optedIn, held, lpHeld, inits, calls>>

\* -------------------------------------------------------------------- swap
\* The quote with lpFee = totalFee - protocolFee wrapping around instead of
\* failing (line 757).
swapQuoteOkMutant(inputAmount, reserveIn, reserveOut, swapFeeBps, protocolFeeBps) ==
  /\ wideRatioOk(inputAmount, swapFeeBps, BPS_DENOMINATOR)
  /\ LET totalFee == wideRatio(inputAmount, swapFeeBps, BPS_DENOMINATOR) IN
     /\ wideRatioOk(totalFee, protocolFeeBps, swapFeeBps)
     /\ LET protocolFee == wideRatio(totalFee, protocolFeeBps, swapFeeBps) IN
        /\ SubOk(inputAmount, totalFee)
        /\ LET inputAfterFee == inputAmount - totalFee IN
           /\ MulOk(reserveOut, inputAfterFee)
           /\ AddOk(reserveIn, inputAfterFee)
           /\ DivOk(reserveOut * inputAfterFee, reserveIn + inputAfterFee)

\* The fee split and the constant-product quote (lines 755-772), defined
\* when no step of it panics.
swapQuoteOk(inputAmount, reserveIn, reserveOut, swapFeeBps, protocolFeeBps) ==
  /\ wideRatioOk(inputAmount, swapFeeBps, BPS_DENOMINATOR)
  /\ LET totalFee == wideRatio(inputAmount, swapFeeBps, BPS_DENOMINATOR) IN
     /\ wideRatioOk(totalFee, protocolFeeBps, swapFeeBps)
     /\ LET protocolFee == wideRatio(totalFee, protocolFeeBps, swapFeeBps) IN
        /\ SubOk(totalFee, protocolFee)
        /\ SubOk(inputAmount, totalFee)
        /\ LET inputAfterFee == inputAmount - totalFee IN
           /\ MulOk(reserveOut, inputAfterFee)
           /\ AddOk(reserveIn, inputAfterFee)
           /\ DivOk(reserveOut * inputAfterFee, reserveIn + inputAfterFee)

\* The quote rounded up instead of down.
swapQuoteMutant(inputAmount, reserveIn, reserveOut, swapFeeBps, protocolFeeBps) ==
  LET totalFee == wideRatio(inputAmount, swapFeeBps, BPS_DENOMINATOR)
      protocolFee == wideRatio(totalFee, protocolFeeBps, swapFeeBps)
      lpFee == totalFee - protocolFee
      inputAfterFee == inputAmount - totalFee
      numerator == reserveOut * inputAfterFee
      denominator == reserveIn + inputAfterFee
      outputAmount == (numerator + denominator - 1) \div denominator
  IN [totalFee |-> totalFee, protocolFee |-> protocolFee, lpFee |-> lpFee,
      inputAfterFee |-> inputAfterFee, outputAmount |-> outputAmount,
      newReserveIn |-> reserveIn + inputAfterFee + lpFee,
      newReserveOut |-> reserveOut - outputAmount]

\* The protocol fee left in the input-side reserve as well as sent.
swapQuoteFeeTwice(inputAmount, reserveIn, reserveOut, swapFeeBps, protocolFeeBps) ==
  LET totalFee == wideRatio(inputAmount, swapFeeBps, BPS_DENOMINATOR)
      protocolFee == wideRatio(totalFee, protocolFeeBps, swapFeeBps)
      lpFee == totalFee - protocolFee
      inputAfterFee == inputAmount - totalFee
      numerator == reserveOut * inputAfterFee
      denominator == reserveIn + inputAfterFee
      outputAmount == numerator \div denominator
  IN [totalFee |-> totalFee, protocolFee |-> protocolFee, lpFee |-> lpFee,
      inputAfterFee |-> inputAfterFee, outputAmount |-> outputAmount,
      newReserveIn |-> reserveIn + inputAmount,
      newReserveOut |-> reserveOut - outputAmount]

\* The output quoted on the input before the fee is taken.
swapQuoteBeforeFee(inputAmount, reserveIn, reserveOut, swapFeeBps, protocolFeeBps) ==
  LET totalFee == wideRatio(inputAmount, swapFeeBps, BPS_DENOMINATOR)
      protocolFee == wideRatio(totalFee, protocolFeeBps, swapFeeBps)
      lpFee == totalFee - protocolFee
      inputAfterFee == inputAmount - totalFee
      numerator == reserveOut * inputAmount
      denominator == reserveIn + inputAfterFee
      outputAmount == numerator \div denominator
  IN [totalFee |-> totalFee, protocolFee |-> protocolFee, lpFee |-> lpFee,
      inputAfterFee |-> inputAfterFee, outputAmount |-> outputAmount,
      newReserveIn |-> reserveIn + inputAfterFee + lpFee,
      newReserveOut |-> reserveOut - outputAmount]

\* The output quoted at the price before the swap, reserveOut / reserveIn.
swapQuoteSpotPrice(inputAmount, reserveIn, reserveOut, swapFeeBps, protocolFeeBps) ==
  LET totalFee == wideRatio(inputAmount, swapFeeBps, BPS_DENOMINATOR)
      protocolFee == wideRatio(totalFee, protocolFeeBps, swapFeeBps)
      lpFee == totalFee - protocolFee
      inputAfterFee == inputAmount - totalFee
      numerator == reserveOut * inputAfterFee
      denominator == reserveIn + inputAfterFee
      outputAmount == IF reserveIn = 0 THEN 0 ELSE numerator \div reserveIn
  IN [totalFee |-> totalFee, protocolFee |-> protocolFee, lpFee |-> lpFee,
      inputAfterFee |-> inputAfterFee, outputAmount |-> outputAmount,
      newReserveIn |-> reserveIn + inputAfterFee + lpFee,
      newReserveOut |-> reserveOut - outputAmount]

swapQuote(inputAmount, reserveIn, reserveOut, swapFeeBps, protocolFeeBps) ==
  LET totalFee == wideRatio(inputAmount, swapFeeBps, BPS_DENOMINATOR)
      protocolFee == wideRatio(totalFee, protocolFeeBps, swapFeeBps)
      lpFee == totalFee - protocolFee
      inputAfterFee == inputAmount - totalFee
      numerator == reserveOut * inputAfterFee
      denominator == reserveIn + inputAfterFee
      outputAmount == numerator \div denominator
  IN [totalFee |-> totalFee, protocolFee |-> protocolFee, lpFee |-> lpFee,
      inputAfterFee |-> inputAfterFee, outputAmount |-> outputAmount,
      newReserveIn |-> reserveIn + inputAfterFee + lpFee,
      newReserveOut |-> reserveOut - outputAmount]

\* Lines 774-783: the two reserves by direction, and k.
swapCommitMutant(g, swapType, newReserveIn, newReserveOut) ==
  [g EXCEPT !.primary_token_reserve =
               IF swapType = 0 THEN newReserveIn ELSE newReserveOut,
            !.secondary_token_reserve =
               IF swapType = 0 THEN newReserveOut ELSE newReserveIn]

\* The new reserves written to the wrong sides.
swapCommitReversed(g, swapType, newReserveIn, newReserveOut) ==
  [g EXCEPT !.primary_token_reserve =
               IF swapType = 0 THEN newReserveOut ELSE newReserveIn,
            !.secondary_token_reserve =
               IF swapType = 0 THEN newReserveIn ELSE newReserveOut,
            !.k_value = newReserveIn * newReserveOut]

swapCommit(g, swapType, newReserveIn, newReserveOut) ==
  [g EXCEPT !.primary_token_reserve =
               IF swapType = 0 THEN newReserveIn ELSE newReserveOut,
            !.secondary_token_reserve =
               IF swapType = 0 THEN newReserveOut ELSE newReserveIn,
            !.k_value = newReserveIn * newReserveOut]

\* swap without the assert of its else branch (line 747): a swap type other
\* than 0 runs as a swap of the secondary asset.
swapRunNoTypeCheck(g, sender, inputAmount, swapType) ==
  LET primaryReserve == g.primary_token_reserve
      secondaryReserve == g.secondary_token_reserve
      protocolReceiver == g.treasury_address
      reserveIn == IF swapType = 0 THEN primaryReserve ELSE secondaryReserve
      reserveOut == IF swapType = 0 THEN secondaryReserve ELSE primaryReserve
      inId == IF swapType = 0 THEN g.primary_token_id
              ELSE g.secondary_token_id
      outId == IF swapType = 0 THEN g.secondary_token_id
               ELSE g.primary_token_id
      q == swapQuote(inputAmount, reserveIn, reserveOut,
                     g.swap_fee_bps, g.protocol_fee_bps)
  IN
  IF ~(inputAmount > 0) THEN Reject("Invalid input amount")
  ELSE IF ~swapQuoteOk(inputAmount, reserveIn, reserveOut,
                       g.swap_fee_bps, g.protocol_fee_bps) THEN Rejected
  ELSE IF ~(q.outputAmount > 0) THEN Reject("Swap too small")
  ELSE IF ~(/\ AddOk(reserveIn + q.inputAfterFee, q.lpFee)
            /\ SubOk(reserveOut, q.outputAmount)
            /\ MulOk(q.newReserveIn, q.newReserveOut)) THEN Rejected
  ELSE Accepted(
    swapCommit(g, swapType, q.newReserveIn, q.newReserveOut),
    (IF q.protocolFee > 0
     THEN <<SendReserve(inId, protocolReceiver, q.protocolFee)>>
     ELSE <<>>)
    \o <<SendReserve(outId, sender, q.outputAmount)>>)

\* swap without its assert on the output (line 768).
swapRunNoOutputCheck(g, sender, inputAmount, swapType) ==
  LET primaryReserve == g.primary_token_reserve
      secondaryReserve == g.secondary_token_reserve
      protocolReceiver == g.treasury_address
      reserveIn == IF swapType = 0 THEN primaryReserve ELSE secondaryReserve
      reserveOut == IF swapType = 0 THEN secondaryReserve ELSE primaryReserve
      inId == IF swapType = 0 THEN g.primary_token_id
              ELSE g.secondary_token_id
      outId == IF swapType = 0 THEN g.secondary_token_id
               ELSE g.primary_token_id
      q == swapQuote(inputAmount, reserveIn, reserveOut,
                     g.swap_fee_bps, g.protocol_fee_bps)
  IN
  IF swapType \notin {0, 1} THEN Reject("Invalid swap type")
  ELSE IF ~(inputAmount > 0) THEN Reject("Invalid input amount")
  ELSE IF ~swapQuoteOk(inputAmount, reserveIn, reserveOut,
                       g.swap_fee_bps, g.protocol_fee_bps) THEN Rejected
  ELSE IF ~(/\ AddOk(reserveIn + q.inputAfterFee, q.lpFee)
            /\ SubOk(reserveOut, q.outputAmount)
            /\ MulOk(q.newReserveIn, q.newReserveOut)) THEN Rejected
  ELSE Accepted(
    swapCommit(g, swapType, q.newReserveIn, q.newReserveOut),
    (IF q.protocolFee > 0
     THEN <<SendReserve(inId, protocolReceiver, q.protocolFee)>>
     ELSE <<>>)
    \o <<SendReserve(outId, sender, q.outputAmount)>>)

\* swap paying the protocol fee in the output-side asset.
swapRunFeeAsset(g, sender, inputAmount, swapType) ==
  LET primaryReserve == g.primary_token_reserve
      secondaryReserve == g.secondary_token_reserve
      protocolReceiver == g.treasury_address
      reserveIn == IF swapType = 0 THEN primaryReserve ELSE secondaryReserve
      reserveOut == IF swapType = 0 THEN secondaryReserve ELSE primaryReserve
      inId == IF swapType = 0 THEN g.primary_token_id
              ELSE g.secondary_token_id
      outId == IF swapType = 0 THEN g.secondary_token_id
               ELSE g.primary_token_id
      q == swapQuote(inputAmount, reserveIn, reserveOut,
                     g.swap_fee_bps, g.protocol_fee_bps)
  IN
  IF swapType \notin {0, 1} THEN Reject("Invalid swap type")
  ELSE IF ~(inputAmount > 0) THEN Reject("Invalid input amount")
  ELSE IF ~swapQuoteOk(inputAmount, reserveIn, reserveOut,
                       g.swap_fee_bps, g.protocol_fee_bps) THEN Rejected
  ELSE IF ~(q.outputAmount > 0) THEN Reject("Swap too small")
  ELSE IF ~(/\ AddOk(reserveIn + q.inputAfterFee, q.lpFee)
            /\ SubOk(reserveOut, q.outputAmount)
            /\ MulOk(q.newReserveIn, q.newReserveOut)) THEN Rejected
  ELSE Accepted(
    swapCommit(g, swapType, q.newReserveIn, q.newReserveOut),
    (IF q.protocolFee > 0
     THEN <<SendReserve(outId, protocolReceiver, q.protocolFee)>>
     ELSE <<>>)
    \o <<SendReserve(outId, sender, q.outputAmount)>>)

swapRun(g, sender, inputAmount, swapType) ==
  LET primaryReserve == g.primary_token_reserve
      secondaryReserve == g.secondary_token_reserve
      protocolReceiver == g.treasury_address
      reserveIn == IF swapType = 0 THEN primaryReserve ELSE secondaryReserve
      reserveOut == IF swapType = 0 THEN secondaryReserve ELSE primaryReserve
      inId == IF swapType = 0 THEN g.primary_token_id
              ELSE g.secondary_token_id
      outId == IF swapType = 0 THEN g.secondary_token_id
               ELSE g.primary_token_id
      q == swapQuote(inputAmount, reserveIn, reserveOut,
                     g.swap_fee_bps, g.protocol_fee_bps)
  IN
  IF swapType \notin {0, 1} THEN Reject("Invalid swap type")
  ELSE IF ~(inputAmount > 0) THEN Reject("Invalid input amount")
  ELSE IF ~swapQuoteOk(inputAmount, reserveIn, reserveOut,
                       g.swap_fee_bps, g.protocol_fee_bps) THEN Rejected
  ELSE IF ~(q.outputAmount > 0) THEN Reject("Swap too small")
  ELSE IF ~(/\ AddOk(reserveIn + q.inputAfterFee, q.lpFee)
            /\ SubOk(reserveOut, q.outputAmount)
            /\ MulOk(q.newReserveIn, q.newReserveOut)) THEN Rejected
  ELSE Accepted(
    swapCommit(g, swapType, q.newReserveIn, q.newReserveOut),
    (IF q.protocolFee > 0
     THEN <<SendReserve(inId, protocolReceiver, q.protocolFee)>>
     ELSE <<>>)
    \o <<SendReserve(outId, sender, q.outputAmount)>>)

\* swap takes no transaction of the caller's: the group may or may not
\* carry a deposit of inputAmount of the input asset (deposited).
swap ==
  /\ Ready
  /\ \E sender \in Addresses, inputAmount \in Amounts, swapType \in SwapTypes,
        deposited \in BOOLEAN :
       LET r == swapRun(gs, sender, inputAmount, swapType)
           inId == IF swapType = 0 THEN gs.primary_token_id
                   ELSE gs.secondary_token_id
           d == IF deposited
                THEN Deposit(held, optedIn, Txn(sender, Pool, inId, inputAmount))
                ELSE [ok |-> TRUE, held |-> held]
           l == ApplyTransfers([held |-> d.held, lp |-> lpHeld],
                               gs.lp_token_id, optedIn, r.xfers)
       IN IF r.ok /\ d.ok /\ l.ok
          THEN /\ WithinReserveBound(r.gs)
               /\ gs' = r.gs
               /\ held' = l.held
               /\ last' = Call("swap", sender, TRUE, inputAmount, swapType,
                               r.xfers)
               /\ calls' = calls + 1
               /\ UNCHANGED <<app, optedIn, lpHeld, inits>>
          ELSE /\ last' = Failed("swap", sender, inputAmount, swapType,
                                  NoAddress,
                                  IF r.ok THEN "inner transaction"
                                  ELSE r.why)
               /\ UNCHANGED <<app, gs, optedIn, held, lpHeld, inits, calls>>

\* ---------------------------------------------------------- admin functions
updateSwapFeeRun(g, sender, newFee) ==
  IF g.admin # sender THEN Reject("Only admin")
  ELSE Accepted([g EXCEPT !.swap_fee_bps = newFee], <<>>)

\* updateProtocolFee writing the swap fee's key.
updateProtocolFeeRunMutant(g, sender, newFee) ==
  IF g.admin # sender THEN Reject("Only admin")
  ELSE Accepted([g EXCEPT !.swap_fee_bps = newFee], <<>>)

updateProtocolFeeRun(g, sender, newFee) ==
  IF g.admin # sender THEN Reject("Only admin")
  ELSE Accepted([g EXCEPT !.protocol_fee_bps = newFee], <<>>)

\* updateAdmin without its assert.
updateAdminRunMutant(g, sender, newAdmin) ==
  Accepted([g EXCEPT !.admin = newAdmin], <<>>)

\* updateAdmin writing the treasury's key.
updateAdminRunWrongKey(g, sender, newAdmin) ==
  IF g.admin # sender THEN Reject("Only admin")
  ELSE Accepted([g EXCEPT !.treasury_address = newAdmin], <<>>)

updateAdminRun(g, sender, newAdmin) ==
  IF g.admin # sender THEN Reject("Only admin")
  ELSE Accepted([g EXCEPT !.admin = newAdmin], <<>>)

\* updateTreasury without its assert (line 874).
updateTreasuryRunMutant(g, sender, newTreasury) ==
  Accepted([g EXCEPT !.treasury_address = newTreasury], <<>>)

updateTreasuryRun(g, sender, newTreasury) ==
  IF g.admin # sender THEN Reject("Only admin")
  ELSE Accepted([g EXCEPT !.treasury_address = newTreasury], <<>>)

updateMinimumBalanceRun(g, sender, newMBR) ==
  IF g.admin # sender THEN Reject("Only admin")
  ELSE Accepted([g EXCEPT !.minimum_balance = newMBR], <<>>)

updateContractEndingRun(g, sender, newEnding) ==
  IF g.admin # sender THEN Reject("Only admin")
  ELSE Accepted([g EXCEPT !.contract_ending = newEnding], <<>>)

\* A call that touches the global state only: op with outcome r.
\* a is its numeric argument, addr its address argument.
ConfigCall(op, sender, a, addr, r) ==
  /\ IF r.ok
     THEN /\ gs' = r.gs
          /\ calls' = calls + 1
          /\ last' = CallWith(op, sender, TRUE, a, 0, addr, "", r.xfers)
     ELSE /\ UNCHANGED <<gs, calls>>
          /\ last' = Failed(op, sender, a, 0, addr, r.why)
  /\ UNCHANGED <<app, optedIn, held, lpHeld, inits>>

updateSwapFee ==
  /\ Ready
  /\ \E sender \in Addresses, newFee \in NewSwapFees :
       ConfigCall("updateSwapFee", sender, newFee, NoAddress,
                  updateSwapFeeRun(gs, sender, newFee))

updateProtocolFee ==
  /\ Ready
  /\ \E sender \in Addresses, newFee \in NewProtocolFees :
       ConfigCall("updateProtocolFee", sender, newFee, NoAddress,
                  updateProtocolFeeRun(gs, sender, newFee))

updateAdmin ==
  /\ Ready
  /\ \E sender \in Addresses, newAdmin \in Addresses :
       ConfigCall("updateAdmin", sender, 0, newAdmin,
                  updateAdminRun(gs, sender, newAdmin))

updateTreasury ==
  /\ Ready
  /\ \E sender \in Addresses, newTreasury \in Addresses :
       ConfigCall("updateTreasury", sender, 0, newTreasury,
                  updateTreasuryRun(gs, sender, newTreasury))

updateMinimumBalance ==
  /\ Ready
  /\ \E sender \in Addresses, newMBR \in MbrValues :
       ConfigCall("updateMinimumBalance", sender, newMBR, NoAddress,
                  updateMinimumBalanceRun(gs, sender, newMBR))

updateContractEnding ==
  /\ Ready
  /\ \E sender \in Addresses, newEnding \in EndingValues :
       ConfigCall("updateContractEnding", sender, newEnding, NoAddress,
                  updateContractEndingRun(gs, sender, newEnding))

\* --------------------------------------------------------- deleteApplication
RECURSIVE deleteApplicationRun(_, _, _, _)
\* deleteApplication without its assert on the secondary reserve (528).
deleteApplicationRunNoReserveCheck(g, opted, sender, depth) ==
  IF g.admin # sender THEN Reject("Only admin")
  ELSE IF g.contract_ending # 1
    THEN Reject("Contract needs to be ending first")
  ELSE IF g.primary_token_reserve # 0
    THEN Reject("Primary reserve must be empty")
  ELSE IF g.primary_token_id \notin opted THEN Reject("inner transaction")
  ELSE IF g.secondary_token_id \notin (opted \ {g.primary_token_id})
    THEN Reject("inner transaction")
  ELSE IF depth = 0 THEN Reject("call stack")
  ELSE deleteApplicationRun(
         [g EXCEPT !.minimum_balance = TOKEN_MBR * 2],
         opted \ {g.primary_token_id, g.secondary_token_id},
         sender, depth - 1)

\* The method checks its four conditions, closes the application account
\* out of both reserve assets and then calls itself (line 553): the inner
\* run meets an account that holds neither asset any more, and its first
\* close-out fails.  depth bounds the call stack.
deleteApplicationRun(g, opted, sender, depth) ==
  IF g.admin # sender THEN Reject("Only admin")
  ELSE IF g.contract_ending # 1
    THEN Reject("Contract needs to be ending first")
  ELSE IF g.primary_token_reserve # 0
    THEN Reject("Primary reserve must be empty")
  ELSE IF g.secondary_token_reserve # 0
    THEN Reject("Secondary reserve must be empty")
  ELSE IF g.primary_token_id \notin opted THEN Reject("inner transaction")
  ELSE IF g.secondary_token_id \notin (opted \ {g.primary_token_id})
    THEN Reject("inner transaction")
  ELSE IF depth = 0 THEN Reject("call stack")
  ELSE deleteApplicationRun(
         [g EXCEPT !.minimum_balance = TOKEN_MBR * 2],
         opted \ {g.primary_token_id, g.secondary_token_id},
         sender, depth - 1)

CallDepth == 8

deleteApplication ==
  /\ Ready
  /\ \E sender \in Addresses :
       LET r == deleteApplicationRun(gs, optedIn, sender, CallDepth)
       IN IF r.ok
          THEN /\ app' = "deleted"
               /\ gs' = EmptyGlobalState
               /\ last' = Call("deleteApplication", sender, TRUE, 0, 0, r.xfers)
               /\ calls' = calls + 1
               /\ UNCHANGED <<optedIn, held, lpHeld, inits>>
          ELSE /\ last' = Failed("deleteApplication", sender, 0, 0,
                                  NoAddress, r.why)
               /\ UNCHANGED <<app, gs, optedIn, held, lpHeld, inits, calls>>

Next ==
  \/ createApplication
  \/ initApplication
  \/ addLiquidity
  \/ removeLiquidity
  \/ swap
  \/ updateSwapFee
  \/ updateProtocolFee
  \/ updateAdmin
  \/ updateTreasury
  \/ updateMinimumBalance
  \/ updateContractEnding
  \/ deleteApplication

Spec == Init /\ [][Next]_vars

\* ------------------------------------------------------------- properties
Initialized == inits >= 1
UpdateOps == {"updateSwapFee", "updateProtocolFee", "updateAdmin",
              "updateTreasury", "updateMinimumBalance", "updateContractEnding"}
Ledger == <<optedIn, held, lpHeld>>

\* C1: after one initApplication, whatever calls follow, the issued count
\* lp_tokens_issued equals LP_TOKEN_SUPPLY minus the remaining allotment
\* total_lp_supply.
C1_AllotmentConservation ==
  inits = 1 => gs.lp_tokens_issued = LP_TOKEN_SUPPLY - gs.total_lp_supply

\* C2: initApplication is accepted at most once in the life of a pool.
C2_InitAtMostOnce == inits <= 1

\* C3: an accepted addLiquidity on a pool with issued LP units sends the
\* caller exactly min(floor(primaryAmount * issued / primaryReserve),
\* floor(secondaryAmount * issued / secondaryReserve)) LP units, issued
\* being lp_tokens_issued before the call.
C3_MintFromIssued ==
  [][(last'.op = "addLiquidity" /\ last'.ok /\ gs.lp_tokens_issued > 0)
     => last'.xfers =
          <<AssetTransfer(gs.lp_token_id, last'.sender,
              min((last'.a * gs.lp_tokens_issued)
                    \div gs.primary_token_reserve,
                  (last'.b * gs.lp_tokens_issued)
                    \div gs.secondary_token_reserve))>>]_vars

\* C4: an accepted removeLiquidity of n LP units pays the caller
\* floor(n * primaryReserve / issued) of the primary asset and
\* floor(n * secondaryReserve / issued) of the secondary asset, issued being
\* lp_tokens_issued before the call.
C4_ProportionalPayout ==
  [][(last'.op = "removeLiquidity" /\ last'.ok)
     => last'.xfers =
          <<SendReserve(gs.primary_token_id, last'.sender,
              (last'.a * gs.primary_token_reserve) \div gs.lp_tokens_issued),
            SendReserve(gs.secondary_token_id, last'.sender,
              (last'.a * gs.secondary_token_reserve)
                \div gs.lp_tokens_issued)>>]_vars

\* C5: an accepted removeLiquidity of n LP units lowers each reserve by the
\* amount paid out, raises total_lp_supply by n, lowers lp_tokens_issued by
\* n and recomputes k.
C5_RemoveCommit ==
  [][(last'.op = "removeLiquidity" /\ last'.ok)
     => /\ gs'.primary_token_reserve
             = gs.primary_token_reserve - last'.xfers[1].amt
        /\ gs'.secondary_token_reserve
             = gs.secondary_token_reserve - last'.xfers[2].amt
        /\ gs'.total_lp_supply = gs.total_lp_supply + last'.a
        /\ gs'.lp_tokens_issued = gs.lp_tokens_issued - last'.a
        /\ gs'.k_value
             = gs'.primary_token_reserve * gs'.secondary_token_reserve]_vars

\* C6: an accepted removeLiquidity of all the issued LP units leaves both
\* reserves 0 and total_lp_supply equal to LP_TOKEN_SUPPLY.
C6_RemoveAllDrains ==
  [][(last'.op = "removeLiquidity" /\ last'.ok
      /\ last'.a = gs.lp_tokens_issued)
     => /\ gs'.primary_token_reserve = 0
        /\ gs'.secondary_token_reserve = 0
        /\ gs'.total_lp_supply = LP_TOKEN_SUPPLY]_vars

\* C7: in every state, k_value is the product of the two reserves.
C7_KIsProduct ==
  gs.k_value = gs.primary_token_reserve * gs.secondary_token_reserve

\* C7 witness: a swap was accepted and left a positive k.
C7_Witness == last.op = "swap" /\ last.ok /\ gs.k_value > 0

\* C8: across an accepted swap with swap_fee_bps > 0, in either direction,
\* the product of the reserves does not decrease.
C8_InvariantGrowth ==
  [][(last'.op = "swap" /\ last'.ok /\ gs.swap_fee_bps > 0)
     => gs'.primary_token_reserve * gs'.secondary_token_reserve
          >= gs.primary_token_reserve * gs.secondary_token_reserve]_vars

\* C8 witness: an accepted swap that charged a fee and paid the caller.
C8_Witness ==
  /\ last.op = "swap" /\ last.ok /\ gs.swap_fee_bps > 0
  /\ Len(last.xfers) = 2

\* C9: the recorded reserves never exceed what the application account
\* holds of the respective asset.
C9_ReservesCustodied ==
  Initialized =>
    /\ gs.primary_token_reserve <= held[gs.primary_token_id]
    /\ gs.secondary_token_reserve <= held[gs.secondary_token_id]

\* C10: an admin update called by anyone but the admin is rejected and
\* changes neither the global state nor the ledger.
C10_NonAdminRejected ==
  [][(last'.op \in UpdateOps /\ last'.sender # gs.admin)
     => (~last'.ok /\ gs' = gs /\ Ledger' = Ledger)]_vars

\* C10 witness: an admin update by a non-admin was rejected.
C10_Witness ==
  last.op = "updateAdmin" /\ ~last.ok /\ last.sender # gs.admin

\* C11: each of the six admin updates, called by the admin, is accepted and
\* overwrites exactly the field it names with its argument; every other
\* field of the global state, the ledger and the application are untouched.
C11_AdminUpdateFrame ==
  [][(last'.op \in UpdateOps /\ last'.sender = gs.admin) =>
       /\ last'.ok
       /\ Ledger' = Ledger /\ app' = app /\ inits' = inits
       /\ last'.op = "updateSwapFee" =>
            gs' = [gs EXCEPT !.swap_fee_bps = last'.a]
       /\ last'.op = "updateProtocolFee" =>
            gs' = [gs EXCEPT !.protocol_fee_bps = last'.a]
       /\ last'.op = "updateAdmin" =>
            gs' = [gs EXCEPT !.admin = last'.addr]
       /\ last'.op = "updateTreasury" =>
            gs' = [gs EXCEPT !.treasury_address = last'.addr]
       /\ last'.op = "updateMinimumBalance" =>
            gs' = [gs EXCEPT !.minimum_balance = last'.a]
       /\ last'.op = "updateContractEnding" =>
            gs' = [gs EXCEPT !.contract_ending = last'.a]]_vars

\* The admin has set a protocol fee that differs from the swap fee, on a
\* pool with reserves.
C11_Witness ==
  /\ last.op = "updateProtocolFee" /\ last.ok
  /\ gs.protocol_fee_bps = last.a
  /\ gs.swap_fee_bps # last.a
  /\ gs.primary_token_reserve > 0

\* C12: a rejected call, whatever made it fail, leaves every field of the
\* global state, every holding of the application account and the
\* application itself as they were before the call.
C12_RejectedUnchanged ==
  [][~last'.ok =>
       /\ gs' = gs
       /\ Ledger' = Ledger
       /\ app' = app
       /\ inits' = inits]_vars

\* The admin's initApplication on a funded pool was rejected at its payment
\* check, after the lines that reset the reserves.
C12_Witness ==
  /\ last.op = "initApplication" /\ ~last.ok /\ last.why = "verify"
  /\ last.sender = gs.admin
  /\ gs.primary_token_reserve > 0
  /\ gs.total_lp_supply > 0

\* C13: a deposit (a, b) accepted while the issued count is zero mints m,
\* the largest integer with m * m <= a * b, sends the caller m units of
\* the LP asset, adds a and b to the reserves, lowers total_lp_supply by m
\* and sets k_value to the product of the new reserves.
C13_FirstDeposit ==
  [][(last'.op = "addLiquidity" /\ last'.ok /\ gs.lp_tokens_issued = 0) =>
       LET a == last'.a
           b == last'.b
           m == last'.xfers[1].amt
       IN /\ m * m <= a * b
          /\ a * b < (m + 1) * (m + 1)
          /\ last'.xfers = <<AssetTransfer(gs.lp_token_id, last'.sender, m)>>
          /\ gs'.primary_token_reserve = gs.primary_token_reserve + a
          /\ gs'.secondary_token_reserve = gs.secondary_token_reserve + b
          /\ gs'.total_lp_supply = gs.total_lp_supply - m
          /\ gs'.k_value = (gs.primary_token_reserve + a)
                           * (gs.secondary_token_reserve + b)]_vars

\* A first deposit whose product is not a square: (2, 4) or (4, 2) mints 2.
C13_Witness ==
  /\ last.op = "addLiquidity" /\ last.ok
  /\ last.a * last.b = 8
  /\ gs.lp_tokens_issued = 2
  /\ gs.total_lp_supply = LP_TOKEN_SUPPLY - 2
  /\ gs.k_value = 8

\* C14: a deposit (a, b) followed at once by the depositor's withdrawal of
\* all the LP units that deposit minted returns (x, y) with x <= a and
\* y <= b; and returns (a, b) exactly when the deposit was the first one
\* into an empty pool, where the share minted / issued is the whole pool.
C14_RoundTrip ==
  [][(/\ last.op = "addLiquidity" /\ last.ok
      /\ last'.op = "removeLiquidity" /\ last'.ok
      /\ last'.sender = last.sender
      /\ last'.a = last.xfers[1].amt) =>
       LET x == last'.xfers[1].amt
           y == last'.xfers[2].amt
       IN /\ x <= last.a
          /\ y <= last.b
          /\ (/\ gs.primary_token_reserve = last.a
              /\ gs.secondary_token_reserve = last.b
              /\ gs.lp_tokens_issued = last'.a) =>
               (x = last.a /\ y = last.b)]_vars

\* C15: an accepted swap of inputAmount in direction swapType computes
\* totalFee = inputAmount * swap_fee_bps / 10000, protocolFee = totalFee *
\* protocol_fee_bps / swap_fee_bps, lpFee = totalFee - protocolFee,
\* inputAfterFee = inputAmount - totalFee, outputAmount = reserveOut *
\* inputAfterFee / (reserveIn + inputAfterFee), all rounded down; it pays
\* the caller outputAmount, the treasury protocolFee when that is positive,
\* and writes reserveIn + inputAfterFee + lpFee and reserveOut -
\* outputAmount to the reserves of its direction.  With fees 30 and 5,
\* reserves (100000, 100000) and input 1000 the output is 987 and the
\* reserves become (101000, 99013).
C15_SwapFormulas ==
  [][/\ LET q == swapQuote(1000, 100000, 100000, 30, 5)
        IN q.outputAmount = 987 /\ q.newReserveIn = 101000
           /\ q.newReserveOut = 99013
     /\ (last'.op = "swap" /\ last'.ok) =>
          LET inputAmount == last'.a
              forward == last'.b = 0
              reserveIn == IF forward THEN gs.primary_token_reserve
                           ELSE gs.secondary_token_reserve
              reserveOut == IF forward THEN gs.secondary_token_reserve
                            ELSE gs.primary_token_reserve
              totalFee == (inputAmount * gs.swap_fee_bps) \div 10000
              protocolFee ==
                (totalFee * gs.protocol_fee_bps) \div gs.swap_fee_bps
              lpFee == totalFee - protocolFee
              inputAfterFee == inputAmount - totalFee
              outputAmount == (reserveOut * inputAfterFee)
                              \div (reserveIn + inputAfterFee)
              newReserveIn == reserveIn + inputAfterFee + lpFee
              newReserveOut == reserveOut - outputAmount
              paid == last'.xfers
          IN /\ last'.b \in {0, 1}
             /\ paid[Len(paid)].amt = outputAmount
             /\ paid[Len(paid)].to = last'.sender
             /\ Len(paid) = (IF protocolFee > 0 THEN 2 ELSE 1)
             /\ protocolFee > 0 => paid[1].amt = protocolFee
             /\ gs'.primary_token_reserve =
                  (IF forward THEN newReserveIn ELSE newReserveOut)
             /\ gs'.secondary_token_reserve =
                  (IF forward THEN newReserveOut ELSE newReserveIn)]_vars

\* An accepted swap of 4 secondary units, its fee of 2 split into a protocol
\* fee of 1 and an LP fee of 1, that leaves both reserves positive.
C15_Witness ==
  /\ last.op = "swap" /\ last.ok /\ last.a = 4 /\ last.b = 1
  /\ Len(last.xfers) = 2
  /\ last.xfers[1].amt = 1
  /\ last.xfers[2].amt > 0
  /\ gs.primary_token_reserve > 0
  /\ gs.secondary_token_reserve > gs.primary_token_reserve

\* C16: with swap_fee_bps = 0, a swap in a valid direction with a positive
\* input on positive reserves is not rejected by an arithmetic error: the
\* protocol fee is taken as 0, and an accepted one pays the quote for
\* inputAfterFee = inputAmount.
C16_ZeroSwapFee ==
  [][(/\ last'.op = "swap"
      /\ gs.swap_fee_bps = 0
      /\ last'.a > 0
      /\ last'.b \in {0, 1}
      /\ gs.primary_token_reserve > 0
      /\ gs.secondary_token_reserve > 0) =>
       LET reserveIn == IF last'.b = 0 THEN gs.primary_token_reserve
                        ELSE gs.secondary_token_reserve
           reserveOut == IF last'.b = 0 THEN gs.secondary_token_reserve
                         ELSE gs.primary_token_reserve
       IN /\ ~last'.ok => last'.why # "panic"
          /\ last'.ok =>
               last'.xfers = <<AssetTransfer(
                 IF last'.b = 0 THEN gs.secondary_token_id
                 ELSE gs.primary_token_id,
                 last'.sender,
                 (reserveOut * last'.a) \div (reserveIn + last'.a))>>]_vars

\* C17: removeLiquidity of more LP units than are issued is rejected, and
\* removeLiquidity of n units with 0 < n <= issued is never rejected for
\* want of supply.
C17_SupplyCheck ==
  [][last'.op = "removeLiquidity" =>
       /\ last'.a > gs.lp_tokens_issued => ~last'.ok
       /\ (0 < last'.a /\ last'.a <= gs.lp_tokens_issued) =>
            ~(~last'.ok /\ last'.why = "Not enough LP supply")]_vars

\* C18: a swap of 0 input units, in any direction, and a removeLiquidity of
\* 0 LP units are rejected and change nothing.
C18_ZeroAmountRejected ==
  [][(last'.op \in {"swap", "removeLiquidity"} /\ last'.a = 0) =>
       /\ ~last'.ok
       /\ gs' = gs
       /\ Ledger' = Ledger]_vars

\* A swap of 0 in a valid direction was rejected for its amount on a pool
\* that has reserves and a swap fee.
C18_Witness ==
  /\ last.op = "swap" /\ last.a = 0 /\ last.b \in {0, 1}
  /\ ~last.ok /\ last.why = "Invalid input amount"
  /\ gs.primary_token_reserve > 0 /\ gs.secondary_token_reserve > 0
  /\ gs.swap_fee_bps > 0

\* C19: a swap whose swapType is neither 0 nor 1 is rejected, whatever its
\* inputAmount, and changes nothing.
C19_InvalidSwapType ==
  [][(last'.op = "swap" /\ last'.b \notin {0, 1}) =>
       /\ ~last'.ok
       /\ gs' = gs
       /\ Ledger' = Ledger]_vars

\* A swap of a positive input with swapType 2 was rejected for its type on
\* a pool that has reserves and a swap fee.
C19_Witness ==
  /\ last.op = "swap" /\ last.b = 2 /\ last.a > 0
  /\ ~last.ok /\ last.why = "Invalid swap type"
  /\ gs.primary_token_reserve > 0 /\ gs.secondary_token_reserve > 0
  /\ gs.swap_fee_bps > 0

\* C20: a swap whose quoted outputAmount rounds down to 0 is rejected and
\* changes nothing; every accepted swap pays its caller a positive amount.
C20_SwapTooSmall ==
  [][last'.op = "swap" =>
       LET reserveIn == IF last'.b = 0 THEN gs.primary_token_reserve
                        ELSE gs.secondary_token_reserve
           reserveOut == IF last'.b = 0 THEN gs.secondary_token_reserve
                         ELSE gs.primary_token_reserve
           totalFee == (last'.a * gs.swap_fee_bps) \div 10000
           inputAfterFee == last'.a - totalFee
           quotedZero ==
             /\ last'.b \in {0, 1}
             /\ inputAfterFee >= 0
             /\ reserveIn + inputAfterFee > 0
             /\ (reserveOut * inputAfterFee)
                  \div (reserveIn + inputAfterFee) = 0
       IN /\ quotedZero => (~last'.ok /\ gs' = gs /\ Ledger' = Ledger)
          /\ last'.ok =>
               /\ last'.xfers[Len(last'.xfers)].to = last'.sender
               /\ last'.xfers[Len(last'.xfers)].amt > 0]_vars

\* A swap of a positive input on positive reserves was rejected because its
\* output rounds down to 0.
C20_Witness ==
  /\ last.op = "swap" /\ last.a > 0 /\ last.b \in {0, 1}
  /\ ~last.ok /\ last.why = "Swap too small"
  /\ gs.primary_token_reserve > 0 /\ gs.secondary_token_reserve > 0

\* C21: an accepted swap sends exactly: protocolFee units of the input-side
\* asset to the treasury address of the state it ran in, if and only if
\* protocolFee > 0, then outputAmount units of the output-side asset to the
\* caller.  A transfer is a payment exactly when its asset id is 0: the
\* pools initApplication accepts hold no asset of id 0, so this half is
\* checked on swapRun with the primary asset id set to 0.
C21_SwapTransfers ==
  [][/\ (last'.op = "swap" /\ last'.ok) =>
          LET forward == last'.b = 0
              inId == IF forward THEN gs.primary_token_id
                      ELSE gs.secondary_token_id
              outId == IF forward THEN gs.secondary_token_id
                       ELSE gs.primary_token_id
              reserveIn == IF forward THEN gs.primary_token_reserve
                           ELSE gs.secondary_token_reserve
              reserveOut == IF forward THEN gs.secondary_token_reserve
                            ELSE gs.primary_token_reserve
              totalFee == (last'.a * gs.swap_fee_bps) \div 10000
              protocolFee ==
                (totalFee * gs.protocol_fee_bps) \div gs.swap_fee_bps
              inputAfterFee == last'.a - totalFee
              outputAmount == (reserveOut * inputAfterFee)
                              \div (reserveIn + inputAfterFee)
              Sent(id, to, amt) ==
                [kind |-> IF id = 0 THEN "pay" ELSE "axfer",
                 asset |-> id, to |-> to, amt |-> amt]
          IN last'.xfers =
               (IF protocolFee > 0
                THEN <<Sent(inId, gs.treasury_address, protocolFee)>>
                ELSE <<>>)
               \o <<Sent(outId, last'.sender, outputAmount)>>
     /\ last'.op = "swap" =>
          LET g == [gs EXCEPT !.primary_token_id = 0]
              r == swapRun(g, last'.sender, last'.a, last'.b)
          IN r.ok =>
               \A i \in 1..Len(r.xfers) :
                 /\ r.xfers[i].kind = "pay" <=> r.xfers[i].asset = 0
                 /\ r.xfers[i].asset =
                      (IF (last'.b = 0) = (i < Len(r.xfers))
                       THEN 0 ELSE g.secondary_token_id)]_vars

\* An accepted swap of primary for secondary units that paid a protocol fee
\* to a treasury that is not the caller.
C21_Witness ==
  /\ last.op = "swap" /\ last.ok /\ last.b = 0
  /\ Len(last.xfers) = 2
  /\ last.xfers[1] = AssetTransfer(gs.primary_token_id,
                                   gs.treasury_address, 1)
  /\ last.xfers[2].asset = gs.secondary_token_id
  /\ last.xfers[2].to = last.sender
  /\ gs.treasury_address # last.sender

\* C22: an accepted initApplication leaves both reserves and k_value at 0,
\* total_lp_supply at LP_TOKEN_SUPPLY, contract_version at 1000 and
\* minimum_balance at 400000; swap_fee_bps, protocol_fee_bps,
\* treasury_address and the two asset ids are its arguments; lp_token_id is
\* the id of an asset created by the call.
C22_InitValues ==
  [][(last'.op = "initApplication" /\ last'.ok) =>
       /\ gs'.primary_token_reserve = 0
       /\ gs'.secondary_token_reserve = 0
       /\ gs'.k_value = 0
       /\ gs'.total_lp_supply = LP_TOKEN_SUPPLY
       /\ gs'.contract_version = 1000
       /\ gs'.minimum_balance = 400000
       /\ gs'.primary_token_id = last'.a
       /\ gs'.secondary_token_id = last'.b
       /\ gs'.swap_fee_bps = last'.c
       /\ gs'.protocol_fee_bps = last'.d
       /\ gs'.treasury_address = last'.addr
       /\ gs'.lp_token_id # 0
       /\ gs'.lp_token_id # gs.lp_token_id
       /\ lpHeld' = LP_TOKEN_SUPPLY]_vars

\* An accepted initApplication with fees 5000 and 2500 and the treasury
\* "user", on a pool that had reserves and another LP asset before.
C22_Witness ==
  /\ last.op = "initApplication" /\ last.ok
  /\ last.c = 5000 /\ last.d = 2500 /\ last.addr = "user"
  /\ gs.swap_fee_bps = 5000 /\ gs.protocol_fee_bps = 2500
  /\ gs.treasury_address = "user"
  /\ gs.lp_token_id = LpAssetId(2)
  /\ gs.lp_tokens_issued > 0
  /\ gs.total_lp_supply = LP_TOKEN_SUPPLY

\* C23: initApplication is accepted only when its caller is the admin and
\* its payment is one to the application account of exactly 403000
\* (TOKEN_MBR * 4 + 3000); a call by anyone else, or with another amount
\* or receiver, is rejected, and a rejected call changes nothing.
C23_InitGuards ==
  [][last'.op = "initApplication" =>
          /\ InitFunding = 403000
          /\ \A receiver \in Addresses \cup {Pool},
                amt \in {0, TOKEN_MBR * 4, 402999, 403000, 403001} :
               initApplicationRun(gs, last'.sender,
                                  Txn(last'.sender, receiver, 0, amt),
                                  last'.a, last'.b, 0, 0, last'.sender,
                                  LpAssetId(inits + 1)).ok
                 => (/\ last'.sender = gs.admin
                     /\ receiver = Pool
                     /\ amt = 403000)
          /\ last'.ok => last'.sender = gs.admin
          /\ ~last'.ok =>
               (gs' = gs /\ Ledger' = Ledger /\ inits' = inits)]_vars

\* A caller who is not the admin was refused initApplication on a pool that
\* is initialized and has reserves.
C23_Witness ==
  /\ last.op = "initApplication" /\ ~last.ok /\ last.why = "Only admin"
  /\ last.sender # gs.admin
  /\ inits >= 1
  /\ gs.primary_token_reserve > 0

\* C24: on an application that has been created but not initialized, no
\* addLiquidity, removeLiquidity, swap or admin update is accepted.
C24_ActiveOnly ==
  [][(/\ inits = 0
      /\ last'.op \in UpdateOps \cup {"addLiquidity", "removeLiquidity",
                                      "swap"}) => ~last'.ok]_vars

\* C25: createApplication is accepted and leaves a global state in which
\* admin is its caller and every other field is unset, on an application
\* account that holds nothing.
C25_CreateSetsAdminOnly ==
  last.op = "createApplication" =>
    /\ last.ok
    /\ app = "live"
    /\ gs = [EmptyGlobalState EXCEPT !.admin = last.sender]
    /\ optedIn = {} /\ lpHeld = 0 /\ inits = 0
    /\ \A i \in ReserveAssetIds : held[i] = 0

\* The application has just been created by the deployer.
C25_Witness ==
  /\ last.op = "createApplication" /\ last.ok
  /\ last.sender \in Creators
  /\ gs.admin = last.sender
  /\ gs.treasury_address = NoAddress
  /\ gs.total_lp_supply = 0

\* The values an accepted call l computes from the state g it runs in: with
\* the uint64 operators + and * (PlainValues), and as the double-width
\* product inside a wideRatio (WideProducts).
PlainValues(g, l) ==
  LET pR == g.primary_token_reserve
      sR == g.secondary_token_reserve
      T == g.total_lp_supply
  IN CASE l.op = "addLiquidity" ->
            {pR + l.a, sR + l.b, (pR + l.a) * (sR + l.b),
             g.lp_tokens_issued + l.xfers[1].amt}
            \cup (IF g.lp_tokens_issued = 0 THEN {l.a * l.b}
                  ELSE {l.b * T})
       [] l.op = "removeLiquidity" ->
            {(pR - l.xfers[1].amt) * (sR - l.xfers[2].amt),
             (T - l.a) + l.a}
       [] l.op = "swap" ->
            LET reserveIn == IF l.b = 0 THEN pR ELSE sR
                reserveOut == IF l.b = 0 THEN sR ELSE pR
                totalFee == (l.a * g.swap_fee_bps) \div 10000
                protocolFee ==
                  (totalFee * g.protocol_fee_bps) \div g.swap_fee_bps
                inputAfterFee == l.a - totalFee
                outputAmount == l.xfers[Len(l.xfers)].amt
                newReserveIn == reserveIn + inputAfterFee
                                + (totalFee - protocolFee)
            IN {reserveOut * inputAfterFee, reserveIn + inputAfterFee,
                newReserveIn, newReserveIn * (reserveOut - outputAmount)}
       [] OTHER -> {}

WideProducts(g, l) ==
  CASE l.op = "addLiquidity" ->
         IF g.lp_tokens_issued = 0 THEN {} ELSE {l.a * g.total_lp_supply}
    [] l.op = "removeLiquidity" ->
         {l.a * g.primary_token_reserve, l.a * g.secondary_token_reserve}
    [] l.op = "swap" ->
         {l.a * g.swap_fee_bps,
          ((l.a * g.swap_fee_bps) \div 10000) * g.protocol_fee_bps}
    [] OTHER -> {}

\* C26 as stated: an addLiquidity, removeLiquidity or swap in which any
\* intermediate product or sum exceeds a machine word fails and changes
\* nothing; an accepted one has computed no such value.
C26_NoValueBeyondWord ==
  [][last'.op \in {"addLiquidity", "removeLiquidity", "swap"} =>
       /\ last'.ok =>
            \A v \in PlainValues(gs, last') \cup WideProducts(gs, last') :
              v <= MAX_UINT64
       /\ ~last'.ok => (gs' = gs /\ Ledger' = Ledger)]_vars

\* C26: no addLiquidity, removeLiquidity or swap commits a value that
\* wrapped around: an accepted one has computed, with the uint64 operators,
\* only sums and products that fit a machine word, and every value it wrote
\* or sent fits one; the products inside wideRatio are double-width and may
\* exceed a word.  A rejected one changes nothing.
C26_NoWraparound ==
  [][last'.op \in {"addLiquidity", "removeLiquidity", "swap"} =>
       /\ last'.ok =>
            /\ \A v \in PlainValues(gs, last') : v <= MAX_UINT64
            /\ \A i \in 1..Len(last'.xfers) :
                 last'.xfers[i].amt \in 0..MAX_UINT64
            /\ \A f \in {"primary_token_reserve", "secondary_token_reserve",
                         "total_lp_supply", "lp_tokens_issued", "k_value"} :
                 gs'[f] \in 0..MAX_UINT64
       /\ ~last'.ok => (gs' = gs /\ Ledger' = Ledger)]_vars

\* A deposit of a few units into a pool with issued units was rejected
\* because secondaryAmount * total_lp_supply does not fit a word.
C26_Witness ==
  /\ last.op = "addLiquidity" /\ ~last.ok /\ last.why = "panic"
  /\ gs.lp_tokens_issued > 0
  /\ last.a <= MaxReserve /\ last.b <= MaxReserve
  /\ last.b * gs.total_lp_supply > MAX_UINT64

\* The fields only the admin may change, and the fields no liquidity call
\* or swap changes.
ConfigFields ==
  {"admin", "treasury_address", "swap_fee_bps", "protocol_fee_bps",
   "minimum_balance", "contract_ending"}
FixedFields ==
  ConfigFields \cup {"primary_token_id", "secondary_token_id", "lp_token_id",
                     "contract_version"}

\* C27: on a created application, a step that changes admin,
\* treasury_address, swap_fee_bps, protocol_fee_bps, minimum_balance or
\* contract_ending is an accepted call by the admin of the state it ran in;
\* addLiquidity, removeLiquidity and swap, by any caller, leave these
\* fields, the asset ids and contract_version unchanged, and swap leaves
\* total_lp_supply and lp_tokens_issued unchanged too.
C27_ConfigFrame ==
  [][app = "live" =>
       /\ (\E f \in ConfigFields : gs'[f] # gs[f]) =>
            (last'.ok /\ last'.sender = gs.admin)
       /\ last'.op \in {"addLiquidity", "removeLiquidity", "swap"} =>
            \A f \in FixedFields : gs'[f] = gs[f]
       /\ last'.op = "swap" =>
            /\ gs'.total_lp_supply = gs.total_lp_supply
            /\ gs'.lp_tokens_issued = gs.lp_tokens_issued]_vars

\* A swap by a caller who is not the admin was accepted on a pool whose
\* fees and treasury are set and whose LP units are issued.
C27_Witness ==
  /\ last.op = "swap" /\ last.ok /\ last.sender # gs.admin
  /\ gs.swap_fee_bps > 0 /\ gs.protocol_fee_bps > 0
  /\ gs.treasury_address # NoAddress
  /\ gs.lp_tokens_issued > 0

\* C28: an addLiquidity (a, b) accepted on a pool with issued LP units
\* gives its caller a fraction of the issued units, minted / (issued +
\* minted), no larger than the fraction a / (reserve + a) of either reserve
\* the caller brought.
C28_NoDilution ==
  [][(last'.op = "addLiquidity" /\ last'.ok /\ gs.lp_tokens_issued > 0) =>
       LET minted == last'.xfers[1].amt IN
       /\ minted * gs'.primary_token_reserve
            <= last'.a * gs'.lp_tokens_issued
       /\ minted * gs'.secondary_token_reserve
            <= last'.b * gs'.lp_tokens_issued]_vars

\* C29: an accepted swap accounts for every unit of its input: the
\* input-side reserve grows by inputAmount - protocolFee, the treasury is
\* sent protocolFee (nothing when it is 0), and inputAfterFee, lpFee and
\* protocolFee add up to inputAmount.
C29_FeeConservation ==
  [][(last'.op = "swap" /\ last'.ok) =>
       LET forward == last'.b = 0
           reserveIn == IF forward THEN gs.primary_token_reserve
                        ELSE gs.secondary_token_reserve
           newReserveIn == IF forward THEN gs'.primary_token_reserve
                           ELSE gs'.secondary_token_reserve
           totalFee == (last'.a * gs.swap_fee_bps) \div 10000
           protocolFee ==
             (totalFee * gs.protocol_fee_bps) \div gs.swap_fee_bps
           lpFee == totalFee - protocolFee
           inputAfterFee == last'.a - totalFee
           toTreasury == IF Len(last'.xfers) = 2 THEN last'.xfers[1].amt
                         ELSE 0
       IN /\ lpFee >= 0 /\ inputAfterFee >= 0
          /\ inputAfterFee + lpFee + protocolFee = last'.a
          /\ toTreasury = protocolFee
          /\ newReserveIn - reserveIn = last'.a - protocolFee
          /\ (newReserveIn - reserveIn) + toTreasury = last'.a]_vars

\* An accepted swap of 4 primary units of which 1 went to the treasury and
\* 3 into the primary reserve.
C29_Witness ==
  /\ last.op = "swap" /\ last.ok /\ last.a = 4 /\ last.b = 0
  /\ Len(last.xfers) = 2
  /\ last.xfers[1].amt = 1
  /\ last.xfers[1].to = gs.treasury_address
  /\ gs.primary_token_reserve >= 5

\* C30: whatever fees are stored, an accepted swap has 0 <= protocolFee <=
\* totalFee <= inputAmount; with swap_fee_bps above 10000 no swap is
\* accepted, and with protocol_fee_bps above swap_fee_bps none whose
\* protocol fee would exceed its total fee.
C30_FeeBounds ==
  [][last'.op = "swap" =>
       LET totalFee == (last'.a * gs.swap_fee_bps) \div 10000 IN
       /\ gs.swap_fee_bps > 10000 => ~last'.ok
       /\ last'.ok =>
            LET protocolFee ==
                  (totalFee * gs.protocol_fee_bps) \div gs.swap_fee_bps
            IN /\ 0 <= protocolFee
               /\ protocolFee <= totalFee
               /\ totalFee <= last'.a
               /\ \A i \in 1..Len(last'.xfers) :
                    last'.xfers[i].amt \in 0..MAX_UINT64
               /\ gs'.primary_token_reserve \in 0..MAX_UINT64
               /\ gs'.secondary_token_reserve \in 0..MAX_UINT64]_vars

\* A swap was rejected by the underflow of totalFee - protocolFee, under a
\* protocol fee above the swap fee.
C30_Witness ==
  /\ last.op = "swap" /\ ~last.ok /\ last.why = "panic"
  /\ last.a > 0 /\ last.b \in {0, 1}
  /\ gs.swap_fee_bps > 0 /\ gs.swap_fee_bps <= 10000
  /\ gs.protocol_fee_bps > gs.swap_fee_bps
  /\ (last.a * gs.swap_fee_bps) \div 10000 >= 1
  /\ gs.primary_token_reserve > 0 /\ gs.secondary_token_reserve > 0

\* C31: on an initialized pool, a deposit whose transfers verify, whose
\* computed mint is 0 and whose new reserves and new k fit a word is
\* accepted: the reserves rise by the deposit, the caller is sent 0 units
\* of the LP asset, and the issued count and the remaining allotment stay
\* as they were.
C31_ZeroMintAccepted ==
  [][(/\ last'.op = "addLiquidity"
      /\ Initialized
      /\ last'.ok \/ last'.why # "verify"
      /\ AddOk(gs.primary_token_reserve, last'.a)
      /\ AddOk(gs.secondary_token_reserve, last'.b)
      /\ MulOk(gs.primary_token_reserve + last'.a,
               gs.secondary_token_reserve + last'.b)
      /\ lpTokensMintedOk(last'.a, last'.b, gs.primary_token_reserve,
                          gs.secondary_token_reserve,
                          gs.total_lp_supply, gs.lp_tokens_issued)
      /\ lpTokensMinted(last'.a, last'.b, gs.primary_token_reserve,
                        gs.secondary_token_reserve,
                        gs.total_lp_supply, gs.lp_tokens_issued) = 0)
     => /\ last'.ok
        /\ last'.xfers = <<AssetTransfer(gs.lp_token_id, last'.sender, 0)>>
        /\ gs' = [gs EXCEPT
                   !.primary_token_reserve = @ + last'.a,
                   !.secondary_token_reserve = @ + last'.b,
                   !.k_value = (gs.primary_token_reserve + last'.a)
                               * (gs.secondary_token_reserve + last'.b)]
        /\ gs'.lp_tokens_issued = gs.lp_tokens_issued
        /\ gs'.total_lp_supply = gs.total_lp_supply
        /\ lpHeld' = lpHeld]_vars

\* A one-sided deposit into a pool that has LP units out: (a, 0) with
\* a > 0 was accepted, sent 0 LP units and raised the primary reserve.
C31_Witness ==
  /\ last.op = "addLiquidity" /\ last.ok
  /\ last.a > 0 /\ last.b = 0
  /\ last.xfers = <<AssetTransfer(gs.lp_token_id, last.sender, 0)>>
  /\ gs.lp_tokens_issued > 0
  /\ gs.primary_token_reserve > gs.secondary_token_reserve

\* The outcomes of the eight admin-only methods called by s in state g.
AdminOnlyOutcomes(g, s) ==
  {initApplicationRun(g, s, Txn(s, Pool, 0, InitFunding), 1, 2, 0, 0, s,
                      LpAssetId(1)),
   deleteApplicationRun(g, {}, s, CallDepth)}
  \cup {updateSwapFeeRun(g, s, f) : f \in NewSwapFees}
  \cup {updateProtocolFeeRun(g, s, f) : f \in NewProtocolFees}
  \cup {updateAdminRun(g, s, n) : n \in Addresses}
  \cup {updateTreasuryRun(g, s, n) : n \in Addresses}
  \cup {updateMinimumBalanceRun(g, s, m) : m \in MbrValues}
  \cup {updateContractEndingRun(g, s, e) : e \in EndingValues}
PassesAdminCheck(g, s) ==
  \A r \in AdminOnlyOutcomes(g, s) : r.ok \/ r.why # "Only admin"
FailsAdminCheck(g, s) ==
  \A r \in AdminOnlyOutcomes(g, s) : ~r.ok /\ r.why = "Only admin"

\* C32: while the application exists exactly one address passes the admin
\* check of the admin-only methods, the stored admin, and every other
\* address fails it in every one of them; after an accepted
\* updateAdmin(newAdmin) that address is newAdmin, and the previous admin,
\* when it is another address, fails the check in every admin-only method.
\* The methods are run in the states that follow accepted calls: a rejected
\* call changes no state.
C32_AdminRotation ==
  app = "live" =>
    /\ last.ok =>
         /\ \A s \in Addresses \cup {NoAddress} :
              IF s = gs.admin THEN PassesAdminCheck(gs, s)
              ELSE FailsAdminCheck(gs, s)
         /\ Cardinality({s \in Addresses \cup {NoAddress} :
                           PassesAdminCheck(gs, s)}) = 1
    /\ (last.op = "updateAdmin" /\ last.ok) =>
         /\ gs.admin = last.addr
         /\ PassesAdminCheck(gs, last.addr)
         /\ last.sender # last.addr => FailsAdminCheck(gs, last.sender)
    /\ (last.op \in UpdateOps /\ last.sender = gs.admin
        /\ last.op # "updateAdmin") => last.ok

\* The creator handed the admin role to another address, and an update it
\* then called was rejected by the admin check.
C32_Witness ==
  /\ gs.admin \notin Creators
  /\ last.op \in UpdateOps /\ last.sender \in Creators
  /\ ~last.ok /\ last.why = "Only admin"

\* C33: deleteApplication called by anyone but the admin, or while
\* contract_ending is not 1, or while either reserve is not 0, is rejected
\* by the assert on that condition, the first that fails in the order of
\* the code; so an accepted deleteApplication has the admin as its caller,
\* contract_ending = 1 and both reserves 0.  The method is run in the
\* states that follow accepted calls.
C33_DeleteGuards ==
  app = "live" =>
    /\ last.ok => \A s \in Addresses :
         LET r == deleteApplicationRun(gs, optedIn, s, CallDepth)
         IN /\ r.ok => (/\ s = gs.admin
                        /\ gs.contract_ending = 1
                        /\ gs.primary_token_reserve = 0
                        /\ gs.secondary_token_reserve = 0)
            /\ s # gs.admin => (~r.ok /\ r.why = "Only admin")
            /\ (s = gs.admin /\ gs.contract_ending # 1) =>
                 (~r.ok /\ r.why = "Contract needs to be ending first")
            /\ (s = gs.admin /\ gs.contract_ending = 1
                /\ gs.primary_token_reserve # 0) =>
                 (~r.ok /\ r.why = "Primary reserve must be empty")
            /\ (s = gs.admin /\ gs.contract_ending = 1
                /\ gs.primary_token_reserve = 0
                /\ gs.secondary_token_reserve # 0) =>
                 (~r.ok /\ r.why = "Secondary reserve must be empty")
    /\ (last.op = "deleteApplication"
        /\ ~(/\ last.sender = gs.admin
             /\ gs.contract_ending = 1
             /\ gs.primary_token_reserve = 0
             /\ gs.secondary_token_reserve = 0)) => ~last.ok

\* The admin set contract_ending to 1 on a pool whose primary reserve is
\* empty and whose secondary reserve is not, and its deleteApplication was
\* rejected for the secondary reserve.
C33_Witness ==
  /\ last.op = "deleteApplication" /\ ~last.ok
  /\ last.sender = gs.admin
  /\ gs.contract_ending = 1
  /\ gs.primary_token_reserve = 0
  /\ gs.secondary_token_reserve > 0
  /\ last.why = "Secondary reserve must be empty"

\* C34: on an initialized pool, a deleteApplication called by the admin
\* while contract_ending is 1 and both reserves are 0 is accepted, and the
\* application is gone after it.
C34_DeleteCompletes ==
  [][(/\ last'.op = "deleteApplication"
      /\ Initialized
      /\ last'.sender = gs.admin
      /\ gs.contract_ending = 1
      /\ gs.primary_token_reserve = 0
      /\ gs.secondary_token_reserve = 0)
     => (last'.ok /\ app' = "deleted")]_vars

\* Fee settings with swap_fee_bps in 0..10000 and protocol_fee_bps no
\* larger, and the inputs of the round trips tried.
RoundTripFees ==
  {<<0, 0>>, <<30, 0>>, <<5000, 0>>, <<5000, 5000>>,
   <<BPS_DENOMINATOR, BPS_DENOMINATOR>>}
MaxInput == 3

\* The amount a swap sent its caller: its last inner transaction.
SwapOutput(r) == r.xfers[Len(r.xfers)].amt

\* Swapping x in direction t in state g and swapping the proceeds back
\* returns at most x.
NoFreeRoundTrip(g, sender, x, t) ==
  LET r1 == swapRun(g, sender, x, t) IN
  r1.ok =>
    LET r2 == swapRun(r1.gs, sender, SwapOutput(r1), 1 - t) IN
    r2.ok => SwapOutput(r2) <= x

\* C35: an accepted swap of x units, followed at once by the swap of its
\* proceeds in the other direction, returns at most x units; and in the
\* state that swap started from, which has a positive input-side reserve
\* or none, the same holds for every input up to MaxInput in either
\* direction under every fee setting of RoundTripFees.
C35_NoFreeRoundTrip ==
  [][(last'.op = "swap" /\ last'.ok) =>
       /\ LET back == swapRun(gs', last'.sender, SwapOutput(last'),
                              1 - last'.b)
          IN back.ok => SwapOutput(back) <= last'.a
       /\ \A fp \in RoundTripFees, x \in 1..MaxInput, t \in {0, 1} :
            NoFreeRoundTrip([gs EXCEPT !.swap_fee_bps = fp[1],
                                       !.protocol_fee_bps = fp[2]],
                            last'.sender, x, t)]_vars

\* A swap of x units was accepted on a pool that charges a fee, and the
\* swap of its proceeds back is accepted and returns less than x.
C35_Witness ==
  /\ last.op = "swap" /\ last.ok
  /\ gs.swap_fee_bps > 0
  /\ LET back == swapRun(gs, last.sender, SwapOutput(last), 1 - last.b)
     IN /\ back.ok
        /\ SwapOutput(back) > 0
        /\ SwapOutput(back) < last.a

\* C36: an accepted swap that met a positive input-side reserve pays out
\* less than the output-side reserve; an accepted swap on two positive
\* reserves leaves two positive reserves; and a swap whose output-side
\* reserve is 0 is rejected.
C36_ReserveNeverEmptied ==
  [][last'.op = "swap" =>
       LET reserveIn == IF last'.b = 0 THEN gs.primary_token_reserve
                        ELSE gs.secondary_token_reserve
           reserveOut == IF last'.b = 0 THEN gs.secondary_token_reserve
                         ELSE gs.primary_token_reserve
       IN /\ (last'.ok /\ reserveIn > 0) =>
               /\ SwapOutput(last') < reserveOut
               /\ gs'.primary_token_reserve > 0
               /\ gs'.secondary_token_reserve > 0
          /\ (last'.ok /\ gs.primary_token_reserve > 0
              /\ gs.secondary_token_reserve > 0) =>
               (gs'.primary_token_reserve > 0
                /\ gs'.secondary_token_reserve > 0)
          /\ reserveOut = 0 =>
               (~last'.ok /\ gs' = gs /\ Ledger' = Ledger)]_vars

\* A swap of the primary asset was accepted on a pool whose primary
\* reserve was positive, and left a single unit in the secondary reserve.
C36_Witness ==
  /\ last.op = "swap" /\ last.ok /\ last.b = 0
  /\ gs.primary_token_reserve > last.a
  /\ gs.secondary_token_reserve = 1
  /\ SwapOutput(last) > 0

====
